---- MODULE Spec2Model ----
(***************************************************************************)
(* Model of packages/vexide-startup/sysrt/vexide_sysrt.c: the errno setter *)
(* vexide_set_enomem, the static FILE __stdio built by FDEV_SETUP_STREAM   *)
(* and the three standard stream symbols stdin, stdout, stderr that all    *)
(* name it.  The stream operations (putc, getc, ungetc, fflush) are the    *)
(* C library's unbuffered character-device stream layer, which consults    *)
(* the slots of the FILE record the source initialises; the callbacks      *)
(* vexide_stdio_putc/getc/flush are external and return a status the       *)
(* environment chooses.                                                    *)
(***************************************************************************)
EXTENDS Integers, Sequences, FiniteSets, TLC

VARIABLES
    errno,      \* thread -> the thread's error cell (errno is thread_local)
    file,       \* FILE address -> FILE record (slots, flags, unget)
    handle,     \* stream identifier -> the FILE address read through it
    transport,  \* history: invocations made through the put slot, in order
    written,    \* history: bytes the program asked to write, in order
    lastFlush,  \* history: output identifier -> last flush invocation via it
    last        \* history: the operation that produced this state

vars == <<errno, file, handle, transport, written, lastFlush, last>>

----------------------------------------------------------------------------
(* Bounds of the model *)

NumThreads == 2
MaxWrites == 2

Threads == 1..NumThreads

(* Bytes the program writes, pushes back, or the transport delivers *)
Bytes == {0, 65}

(* Values other code of a thread stores in its error cell (0, EIO, ENOMEM) *)
ErrnoVals == {0, 5, 12}

----------------------------------------------------------------------------
(* Constants of <errno.h> and <stdio.h> the source relies on *)

ENOMEM == 12
EOF == -1
FDEV_ERR == -1
FDEV_EOF == -2

(* Status values the external callbacks may return *)
PutReturns == {FDEV_EOF, FDEV_ERR, 0}
GetReturns == {FDEV_EOF, FDEV_ERR} \cup Bytes
FlushReturns == {FDEV_EOF, FDEV_ERR, 0}

----------------------------------------------------------------------------
(* The static stream record, lines 20-25 *)

FDEV_SETUP_RW == {"__SRD", "__SWR"}

FDEV_SETUP_STREAM(put, get, flush, flags) ==
    [put |-> put, get |-> get, flush |-> flush, flags |-> flags, unget |-> 0]

(* mutant: the callbacks registered in the wrong slots *)
stdio_slots_swapped ==
    FDEV_SETUP_STREAM("vexide_stdio_flush", "vexide_stdio_getc",
                      "vexide_stdio_putc", FDEV_SETUP_RW)

(* mutant: the stream set up for writing only *)
stdio_write_only ==
    FDEV_SETUP_STREAM("vexide_stdio_putc", "vexide_stdio_getc",
                      "vexide_stdio_flush", {"__SWR"})

(* mutant: the stream set up for reading only *)
stdio_read_only ==
    FDEV_SETUP_STREAM("vexide_stdio_putc", "vexide_stdio_getc",
                      "vexide_stdio_flush", {"__SRD"})

__stdio ==
    FDEV_SETUP_STREAM("vexide_stdio_putc", "vexide_stdio_getc",
                      "vexide_stdio_flush", FDEV_SETUP_RW)

----------------------------------------------------------------------------
(* The three stream symbols, lines 28-30.  A value is the address of the   *)
(* FILE object the symbol's pointer holds.                                 *)

(* mutant: stdout defined as a pointer to a FILE object of its own *)
stdout_own_object == "__stdout"

(* mutant: stderr defined as a pointer to a FILE object of its own *)
stderr_own_object == "__stderr"

stdin == "__stdio"

stdout == stdin

stderr == stdin

StreamIds == {"stdin", "stdout", "stderr"}

(* The identifiers output is written and flushed through by convention *)
OutputIds == {"stdout", "stderr"}

Resolve(id) ==
    CASE id = "stdin" -> stdin
      [] id = "stdout" -> stdout
      [] id = "stderr" -> stderr

(* The FILE objects that exist: those the stream symbols point at *)
FileAddrs == {Resolve(id) : id \in StreamIds}

NoCalls == <<>>

Init ==
    /\ errno = [t \in Threads |-> 0]
    /\ file = [a \in FileAddrs |-> __stdio]
    /\ handle = [id \in StreamIds |-> Resolve(id)]
    /\ transport = <<>>
    /\ written = <<>>
    /\ lastFlush = [id \in OutputIds |-> NoCalls]
    /\ last = [op |-> "init", calls |-> NoCalls]

----------------------------------------------------------------------------
(* The error setter, lines 11-13: errno = ENOMEM on the calling thread *)

(* mutant: keeps an error code already recorded *)
set_enomem_if_clear(t) ==
    /\ errno' = [errno EXCEPT ![t] = IF errno[t] = 0 THEN ENOMEM ELSE errno[t]]
    /\ last' = [op |-> "vexide_set_enomem", thread |-> t, prior |-> errno[t],
                calls |-> NoCalls]
    /\ UNCHANGED <<file, handle, transport, written, lastFlush>>

(* mutant: errno as one process-wide cell *)
set_enomem_global(t) ==
    /\ errno' = [u \in Threads |-> ENOMEM]
    /\ last' = [op |-> "vexide_set_enomem", thread |-> t, prior |-> errno[t],
                calls |-> NoCalls]
    /\ UNCHANGED <<file, handle, transport, written, lastFlush>>

(* mutant: also resets the stream's error and end-of-input indicators *)
set_enomem_clearing_stream(t) ==
    /\ errno' = [errno EXCEPT ![t] = ENOMEM]
    /\ file' = [a \in DOMAIN file |->
                  [file[a] EXCEPT !.flags = @ \ {"__SERR", "__SEOF"}]]
    /\ last' = [op |-> "vexide_set_enomem", thread |-> t, prior |-> errno[t],
                calls |-> NoCalls]
    /\ UNCHANGED <<handle, transport, written, lastFlush>>

vexide_set_enomem(t) ==
    /\ errno' = [errno EXCEPT ![t] = ENOMEM]
    /\ last' = [op |-> "vexide_set_enomem", thread |-> t, prior |-> errno[t],
                calls |-> NoCalls]
    /\ UNCHANGED <<file, handle, transport, written, lastFlush>>

(* Any other store to the thread's error cell (errno is an lvalue of       *)
(* <errno.h>, written by the library and the runtime on failures)          *)
errno_store(t, e) ==
    /\ errno' = [errno EXCEPT ![t] = e]
    /\ last' = [op |-> "errno_store", thread |-> t, prior |-> errno[t],
                calls |-> NoCalls]
    /\ UNCHANGED <<file, handle, transport, written, lastFlush>>

----------------------------------------------------------------------------
(* Stream operations issued through a stream identifier.  Each reads the   *)
(* FILE record behind the identifier and invokes the callback its slot     *)
(* holds; st / r is the value the external callback returns.               *)

putc(id, c, st) ==
    LET h == handle[id]
        f == file[h]
    IN  /\ Len(written) < MaxWrites
        /\ written' = Append(written, c)
        /\ IF "__SWR" \notin f.flags
             THEN /\ last' = [op |-> "putc", via |-> id, arg |-> c,
                              result |-> EOF, calls |-> NoCalls]
                  /\ UNCHANGED <<file, transport>>
             ELSE /\ transport' =
                        Append(transport, [cb |-> f.put, ch |-> c, file |-> h])
                  /\ file' = IF st < 0
                               THEN [file EXCEPT ![h].flags = @ \cup {"__SERR"}]
                               ELSE file
                  /\ last' = [op |-> "putc", via |-> id, arg |-> c,
                              result |-> IF st < 0 THEN EOF ELSE c,
                              calls |-> <<[cb |-> f.put, file |-> h,
                                           arg |-> c, ret |-> st]>>]
        /\ UNCHANGED <<errno, handle, lastFlush>>

getc(id, r) ==
    LET h == handle[id]
        f == file[h]
    IN  /\ IF "__SRD" \notin f.flags
             THEN /\ last' = [op |-> "getc", via |-> id, pending |-> f.unget,
                              result |-> EOF, calls |-> NoCalls]
                  /\ UNCHANGED file
             ELSE IF f.unget # 0
             THEN /\ file' = [file EXCEPT ![h].unget = 0]
                  /\ last' = [op |-> "getc", via |-> id, pending |-> f.unget,
                              result |-> f.unget - 1, calls |-> NoCalls]
             ELSE /\ file' = IF r < 0
                               THEN [file EXCEPT ![h].flags = @ \cup
                                       {IF r = FDEV_ERR THEN "__SERR" ELSE "__SEOF"}]
                               ELSE file
                  /\ last' = [op |-> "getc", via |-> id, pending |-> 0,
                              result |-> IF r < 0 THEN EOF ELSE r,
                              calls |-> <<[cb |-> f.get, file |-> h, ret |-> r]>>]
        /\ UNCHANGED <<errno, handle, transport, written, lastFlush>>

ungetc(id, c) ==
    LET h == handle[id]
        f == file[h]
    IN  /\ IF "__SRD" \notin f.flags \/ f.unget # 0
             THEN /\ last' = [op |-> "ungetc", via |-> id, arg |-> c,
                              result |-> EOF, calls |-> NoCalls]
                  /\ UNCHANGED file
             ELSE /\ file' = [file EXCEPT ![h].unget = c + 1,
                                          ![h].flags = @ \ {"__SEOF"}]
                  /\ last' = [op |-> "ungetc", via |-> id, arg |-> c,
                              result |-> c, calls |-> NoCalls]
        /\ UNCHANGED <<errno, handle, transport, written, lastFlush>>

fflush(id, st) ==
    LET h == handle[id]
        f == file[h]
    IN  /\ IF f.flush = "NULL"
             THEN /\ last' = [op |-> "fflush", via |-> id, result |-> 0,
                              calls |-> NoCalls]
                  /\ UNCHANGED lastFlush
             ELSE /\ last' = [op |-> "fflush", via |-> id, result |-> st,
                              calls |-> <<[cb |-> f.flush, file |-> h,
                                           ret |-> st]>>]
                  /\ lastFlush' = IF id \in OutputIds
                                     THEN [lastFlush EXCEPT ![id] =
                                             <<[cb |-> f.flush, file |-> h]>>]
                                     ELSE lastFlush
        /\ UNCHANGED <<errno, file, handle, transport, written>>

clearerr(id) ==
    LET h == handle[id]
    IN  /\ file' = [file EXCEPT ![h].flags = @ \ {"__SERR", "__SEOF"}]
        /\ last' = [op |-> "clearerr", via |-> id, calls |-> NoCalls]
        /\ UNCHANGED <<errno, handle, transport, written, lastFlush>>

----------------------------------------------------------------------------

Next ==
    \/ \E t \in Threads : vexide_set_enomem(t)
    \/ \E t \in Threads, e \in ErrnoVals : errno_store(t, e)
    \/ \E id \in StreamIds, c \in Bytes, st \in PutReturns : putc(id, c, st)
    \/ \E id \in StreamIds, r \in GetReturns : getc(id, r)
    \/ \E id \in StreamIds, c \in Bytes : ungetc(id, c)
    \/ \E id \in StreamIds, st \in FlushReturns : fflush(id, st)
    \/ \E id \in StreamIds : clearerr(id)

Spec == Init /\ [][Next]_vars

----------------------------------------------------------------------------
(* Properties *)

Streams == <<file, handle, transport, written, lastFlush>>

ErrnoOps == {"vexide_set_enomem", "errno_store"}

Registered(op) ==
    CASE op = "putc" -> "vexide_stdio_putc"
      [] op = "getc" -> "vexide_stdio_getc"
      [] op = "fflush" -> "vexide_stdio_flush"

(* C1: in every reachable state stdin, stdout and stderr resolve to the    *)
(* same stream handle address, &__stdio; no operation makes two differ.    *)
C1_Aliasing ==
    \A i, j \in StreamIds : handle[i] = handle[j] /\ handle[i] = "__stdio"

C1_Witness ==
    /\ Len(written) >= 2
    /\ last.op = "ungetc"
    /\ handle["stdout"] = handle["stdin"]
    /\ handle["stderr"] = handle["stdin"]

(* C2: after vexide_set_enomem on a thread, that thread's error cell is    *)
(* ENOMEM whatever it held before: overwritten, not combined.              *)
C2_Overwrite ==
    last.op = "vexide_set_enomem" => errno[last.thread] = ENOMEM

C2_Witness ==
    /\ last.op = "vexide_set_enomem"
    /\ last.prior \notin {0, ENOMEM}
    /\ errno[last.thread] = ENOMEM

(* C3: a call of vexide_set_enomem by one thread leaves every other        *)
(* thread's error cell unchanged; a thread's cell changes only through an  *)
(* operation of that thread.                                               *)
C3_Isolation ==
    [][ /\ \A t1 \in Threads : vexide_set_enomem(t1) =>
              \A t2 \in Threads \ {t1} : errno'[t2] = errno[t2]
        /\ \A t2 \in Threads : errno'[t2] # errno[t2] =>
              last'.op \in ErrnoOps /\ last'.thread = t2 ]_vars

C3_Witness ==
    /\ last.op = "vexide_set_enomem"
    /\ errno[last.thread] = ENOMEM
    /\ \E t2 \in Threads \ {last.thread} : errno[t2] \notin {0, ENOMEM}

(* C4: every byte written causes exactly one invocation of                 *)
(* vexide_stdio_putc with that byte and the shared handle; after n writes  *)
(* the callback was invoked n times with those bytes in order.             *)
C4_WriteRouting ==
    /\ Len(transport) = Len(written)
    /\ \A k \in 1..Len(written) :
          transport[k] = [cb |-> "vexide_stdio_putc", ch |-> written[k],
                          file |-> "__stdio"]
    /\ last.op = "putc" =>
          /\ Len(last.calls) = 1
          /\ last.calls[1].arg = last.arg
          /\ last.calls[1].cb = "vexide_stdio_putc"

C4_Witness ==
    /\ Len(written) >= 2
    /\ written[1] # written[2]
    /\ Len(transport) = Len(written)
    /\ last.op = "putc"
    /\ last.via = "stdout"

(* C5: a read through stdin with nothing pushed back invokes               *)
(* vexide_stdio_getc once on the shared handle; when it returns a negative *)
(* no-data value the read yields the no-data result, no byte is put in its *)
(* place and none is left pending.                                         *)
C5_NoData ==
    (last.op = "getc" /\ last.via = "stdin" /\ last.pending = 0) =>
        /\ Len(last.calls) = 1
        /\ last.calls[1].cb = "vexide_stdio_getc"
        /\ last.calls[1].file = "__stdio"
        /\ last.calls[1].ret < 0 =>
              /\ last.result = EOF
              /\ last.result \notin Bytes
              /\ file[handle["stdin"]].unget = 0
        /\ last.calls[1].ret >= 0 => last.result = last.calls[1].ret

C5_Witness ==
    /\ last.op = "getc"
    /\ last.via = "stdin"
    /\ last.calls # NoCalls
    /\ last.calls[1].ret = FDEV_EOF
    /\ last.result = EOF

(* C6: a flush through stderr invokes the same flush callback,             *)
(* vexide_stdio_flush, on the same handle as a flush through stdout.       *)
C6_FlushAlias ==
    (lastFlush["stderr"] # NoCalls /\ lastFlush["stdout"] # NoCalls) =>
        /\ lastFlush["stderr"][1].cb = lastFlush["stdout"][1].cb
        /\ lastFlush["stderr"][1].file = lastFlush["stdout"][1].file
        /\ lastFlush["stderr"][1].cb = "vexide_stdio_flush"

C6_Witness ==
    /\ lastFlush["stderr"] # NoCalls
    /\ lastFlush["stdout"] # NoCalls
    /\ last.op = "fflush"
    /\ last.via = "stderr"

(* C7: the stream state seen through each of the three identifiers is the  *)
(* same after any sequence of operations through any of them.              *)
C7_SharedState ==
    \A i, j \in StreamIds : file[handle[i]] = file[handle[j]]

C7_Witness ==
    /\ last.op = "ungetc"
    /\ last.via = "stderr"
    /\ last.result # EOF
    /\ file[handle["stdin"]].unget # 0
    /\ "__SERR" \in file[handle["stdout"]].flags

(* C8 as stated: a negative status of the write or flush callback reaches  *)
(* the caller of the operation unchanged, the callback being invoked once. *)
C8_StatusUnchanged ==
    (last.op \in {"putc", "fflush"} /\ last.calls # NoCalls
        /\ last.calls[1].ret < 0) =>
        /\ Len(last.calls) = 1
        /\ last.result = last.calls[1].ret

(* C8 amended: a negative status of the write or flush callback makes the  *)
(* operation fail with a negative result: a flush returns the status       *)
(* unchanged, a byte write returns EOF and sets the error indicator; only  *)
(* the registered callback is invoked, once, on the shared handle.         *)
C8_FailureSurfaced ==
    (last.op \in {"putc", "fflush"} /\ last.calls # NoCalls
        /\ last.calls[1].ret < 0) =>
        /\ Len(last.calls) = 1
        /\ last.calls[1].cb = Registered(last.op)
        /\ last.calls[1].file = "__stdio"
        /\ last.result < 0
        /\ last.op = "fflush" => last.result = last.calls[1].ret
        /\ last.op = "putc" =>
              last.result = EOF /\ "__SERR" \in file[handle[last.via]].flags

C8_Witness ==
    /\ last.op = "putc"
    /\ last.via = "stderr"
    /\ last.calls # NoCalls
    /\ last.calls[1].ret = FDEV_EOF
    /\ last.result = EOF

(* C9: from the initial state on, the one stream handle holds              *)
(* vexide_stdio_putc, vexide_stdio_getc and vexide_stdio_flush in its      *)
(* write, read and flush slots and is open for reading and writing; no     *)
(* operation changes a slot, the mode, or the set of handles.              *)
C9_HandleInitialised ==
    /\ DOMAIN file = {"__stdio"}
    /\ file["__stdio"].put = "vexide_stdio_putc"
    /\ file["__stdio"].get = "vexide_stdio_getc"
    /\ file["__stdio"].flush = "vexide_stdio_flush"
    /\ FDEV_SETUP_RW \subseteq file["__stdio"].flags
    /\ handle = [id \in StreamIds |-> "__stdio"]

C9_Witness ==
    /\ {"__SERR", "__SEOF"} \subseteq file["__stdio"].flags
    /\ transport # <<>>
    /\ lastFlush["stdout"] # NoCalls
    /\ last.op = "vexide_set_enomem"

(* C10: vexide_set_enomem is always enabled, writes only the calling       *)
(* thread's error cell, invokes no callback and leaves the stream handle   *)
(* and the aliases unchanged; a second call in a row changes nothing.      *)
C10_Frame ==
    [][ \A t \in Threads :
          /\ ENABLED vexide_set_enomem(t)
          /\ vexide_set_enomem(t) =>
                /\ errno' = [errno EXCEPT ![t] = ENOMEM]
                /\ UNCHANGED Streams
                /\ last'.calls = NoCalls
          /\ (last.op = "vexide_set_enomem" /\ last.thread = t
                /\ vexide_set_enomem(t)) =>
                UNCHANGED <<errno, Streams>> ]_vars

C10_Witness ==
    /\ last.op = "vexide_set_enomem"
    /\ last.prior = ENOMEM
    /\ file["__stdio"].unget # 0
    /\ "__SERR" \in file["__stdio"].flags
    /\ transport # <<>>

====
